---- MODULE Spec2Model ----
(***************************************************************************)
(* Kanbu Graphiti API service (apps/graphiti/src/api/main.py, schemas.py). *)
(* Spec and SpecAnyLimit follow one request through a search endpoint      *)
(* (/search, /search/temporal, /search/hybrid) from the point where        *)
(* get_graphiti has returned a client.  SpecService follows the client     *)
(* itself: get_graphiti, lifespan, health_check and the requests that call *)
(* get_graphiti at the same time.  Scores are in tenths (10 = 1.0),        *)
(* instants are small naturals, and an absent date is NoDate.             *)
(***************************************************************************)
EXTENDS Integers, Sequences, FiniteSets, TLC

VARIABLES
    pc,              \* position of the handler that is running
    endpoint,        \* which handler is running
    request,         \* the request body as received
    filters,         \* temporal_search: the SearchFilters built from as_of
    search_config,   \* hybrid_search: the SearchConfig built from the flags
    store_edges,     \* the facts in the graph store when it was queried
    failed_channels, \* (class, method) pairs for which the store failed
    exception,       \* the exception raised inside the handler's try block
    results,         \* what the awaited graphiti call returned
    channel_hits,    \* per class and returned item: the channels that found it
    response,        \* what the caller receives
    graphiti_client, \* the module's global: 0 for None, else the client stored
    clients,         \* the Graphiti objects constructed so far, by number
    app,             \* position of lifespan
    caller,          \* per caller of get_graphiti: its position and locals
    handle_writer    \* the caller whose assignment graphiti_client holds

\* the locals of a search handler and the request it serves
handler_vars == <<pc, endpoint, request, filters, search_config, store_edges,
                  failed_channels, exception, results, channel_hits, response>>

\* the client, the life cycle of the application and the callers of
\* get_graphiti
service_vars == <<graphiti_client, clients, app, caller, handle_writer>>

vars == <<handler_vars, service_vars>>

----------------------------------------------------------------------------
\* Bounds of the exploration.

\* most items the store returns to one hybrid search, over all classes
MaxItems == 2
\* most channels that fail in the store during one hybrid search
MaxFailures == 1
\* most facts in the store when /search or /search/temporal queries it
MaxEdges == 2
\* instants are 1..MaxTime
MaxTime == 2
\* most requests in flight at the same time
MaxRequests == 2

----------------------------------------------------------------------------
\* Values.

\* an absent (None) date: valid_at / invalid_at of a fact, date of a DateFilter
NoDate == 0
\* the score given to a result for which no score is available (1.0)
DefaultScore == 10
\* SearchRequest / TemporalQueryRequest: limit has ge=1, le=50
LimitMin == 1
LimitMax == 50
\* SearchRequest: query has min_length=1
QueryMinLength == 1

Times == 1..MaxTime
Dates == Times \cup {NoDate}

Classes == {"edge", "node", "episode", "community"}
None == <<>>
Some(x) == <<x>>
IsNone(opt) == opt = <<>>

Min(a, b) == IF a <= b THEN a ELSE b
Take(seq, n) == SubSeq(seq, 1, Min(Len(seq), IF n < 0 THEN 0 ELSE n))
Range(seq) == {seq[i] : i \in 1..Len(seq)}

RECURSIVE SumOver(_, _)
SumOver(f, S) ==
    IF S = {} THEN 0
    ELSE LET x == CHOOSE y \in S : TRUE IN f[x] + SumOver(f, S \ {x})

----------------------------------------------------------------------------
\* Requests (schemas.py).  Every request is a record of one shape; a field an
\* endpoint's schema does not have keeps the value it has in NoRequest.

NoRequest ==
    [query |-> "", limit |-> 0, as_of |-> NoDate,
     use_bm25 |-> FALSE, use_vector |-> FALSE, use_bfs |-> FALSE,
     search_edges |-> FALSE, search_nodes |-> FALSE,
     search_episodes |-> FALSE, search_communities |-> FALSE,
     reranker |-> "", mmr_lambda |-> 0]

Queries == {"", "q"}
\* limits a client may send to /search and /search/temporal
RawLimits == {0, 1, 2, LimitMax, LimitMax + 1}
\* limits a client sends to /search/hybrid: the ones every schema of the
\* service accepts, and all of those together with limits that are not
\* positive
HybridLimits == {1, 2}
HybridAnyLimits == {-1, 0, 1, 2}
\* reranker keys a client may send: the four keys of the lookup tables and
\* one key that is in none of them
RerankerKeys == {"rrf", "mmr", "cross_encoder", "none", "bogus"}
MmrLambdas == {5}

\* class SearchRequest: query (min_length=1), limit (ge=1, le=50)
SearchRequest ==
    {[NoRequest EXCEPT !.query = q, !.limit = l] :
        q \in Queries, l \in RawLimits}

SearchRequestValid(r) ==
    /\ Len(r.query) >= QueryMinLength
    /\ r.limit >= LimitMin
    /\ r.limit <= LimitMax

\* class TemporalQueryRequest: query (no length constraint), as_of (required),
\* limit (ge=1, le=50)
TemporalQueryRequest ==
    {[NoRequest EXCEPT !.query = q, !.limit = l, !.as_of = t] :
        q \in Queries, l \in RawLimits, t \in Times}

TemporalQueryRequestValid(r) ==
    /\ r.as_of # NoDate
    /\ r.limit >= LimitMin
    /\ r.limit <= LimitMax

\* class HybridSearchRequest: the fields hybrid_search reads.  The schema
\* puts no lower bound on limit and takes reranker as a free string.
HybridSearchRequest(limits) ==
    {[query |-> "q", limit |-> l, as_of |-> NoDate,
      use_bm25 |-> b, use_vector |-> v, use_bfs |-> f,
      search_edges |-> se, search_nodes |-> sn,
      search_episodes |-> sp, search_communities |-> sc,
      reranker |-> k, mmr_lambda |-> m] :
        l \in limits, b \in BOOLEAN, v \in BOOLEAN, f \in BOOLEAN,
        se \in BOOLEAN, sn \in BOOLEAN, sp \in BOOLEAN, sc \in BOOLEAN,
        k \in RerankerKeys, m \in MmrLambdas}

HybridSearchRequestValid(r) == r \in HybridSearchRequest(HybridAnyLimits)

----------------------------------------------------------------------------
\* temporal_search: the temporal filters (main.py 491-510) and what the
\* search applies them to.

\* DateFilter(date=..., comparison_operator=...)
DateFilter(date, op) == [date |-> date, comparison_operator |-> op]

\* faulty variant of TemporalFilters: invalid_at >= as_of, a closed interval
TemporalFilters_closed(as_of) ==
    [valid_at |-> << << DateFilter(as_of, "less_than_equal") >> >>,
     invalid_at |-> << << DateFilter(as_of, "greater_than_equal") >>,
                       << DateFilter(NoDate, "is_null") >> >>]

\* SearchFilters(valid_at=[[<= as_of]], invalid_at=[[> as_of], [is_null]]):
\* each field is a list of lists of DateFilter
TemporalFilters(as_of) ==
    [valid_at |-> << << DateFilter(as_of, "less_than_equal") >> >>,
     invalid_at |-> << << DateFilter(as_of, "greater_than") >>,
                       << DateFilter(NoDate, "is_null") >> >>]

\* SearchFilters(): no date filter at all
NoFilters == [valid_at |-> <<>>, invalid_at |-> <<>>]

\* one DateFilter applied to a date of a fact; a comparison with an absent
\* date is not true
DateFilterHolds(f, value) ==
    CASE f.comparison_operator = "is_null" -> value = NoDate
      [] f.comparison_operator = "is_not_null" -> value # NoDate
      [] f.comparison_operator = "equals" -> value # NoDate /\ value = f.date
      [] f.comparison_operator = "not_equals" -> value # NoDate /\ value # f.date
      [] f.comparison_operator = "greater_than" -> value # NoDate /\ value > f.date
      [] f.comparison_operator = "less_than" -> value # NoDate /\ value < f.date
      [] f.comparison_operator = "greater_than_equal" ->
            value # NoDate /\ value >= f.date
      [] f.comparison_operator = "less_than_equal" ->
            value # NoDate /\ value <= f.date

\* a field's list of lists: the inner lists are conjunctions, the outer list
\* is their disjunction; an empty outer list filters nothing
DateFiltersHold(orList, value) ==
    \/ Len(orList) = 0
    \/ \E i \in 1..Len(orList) :
          \A j \in 1..Len(orList[i]) : DateFilterHolds(orList[i][j], value)

\* the facts a search with these filters may return
FilterSelects(flt, edge) ==
    /\ DateFiltersHold(flt.valid_at, edge.valid_at)
    /\ DateFiltersHold(flt.invalid_at, edge.invalid_at)

\* the facts the store can hold: a uuid and a validity window
StoreEdge == [uuid : 1..MaxEdges, valid_at : Dates, invalid_at : Dates]

\* the stores the model draws from: up to MaxEdges facts, uuids 1..n
RECURSIVE StoresOfLen(_)
StoresOfLen(n) ==
    IF n = 0 THEN {<<>>}
    ELSE {Append(s, [uuid |-> n, valid_at |-> v, invalid_at |-> i]) :
            s \in StoresOfLen(n - 1), v \in Dates, i \in Dates}

Stores == UNION {StoresOfLen(n) : n \in 0..MaxEdges}

----------------------------------------------------------------------------
\* hybrid_search: the search configuration (main.py 576-653).

AppendIf(list, cond, x) == IF cond THEN Append(list, x) ELSE list

\* edge_methods = []; append bm25 / cosine_similarity / bfs per flag
edge_methods(r) ==
    AppendIf(AppendIf(AppendIf(<<>>, r.use_bm25, "bm25"),
                      r.use_vector, "cosine_similarity"),
             r.use_bfs, "bfs")

\* node_methods = []; the same three appends
node_methods(r) ==
    AppendIf(AppendIf(AppendIf(<<>>, r.use_bm25, "bm25"),
                      r.use_vector, "cosine_similarity"),
             r.use_bfs, "bfs")

\* faulty variant of community_methods: bfs is appended as well
community_methods_bfs(r) ==
    AppendIf(AppendIf(AppendIf(<<>>, r.use_bm25, "bm25"),
                      r.use_vector, "cosine_similarity"),
             r.use_bfs, "bfs")

\* [bm25 if use_bm25 else None, cosine_similarity if use_vector else None]
\* with the None entries filtered out
community_methods(r) ==
    LET raw == << IF r.use_bm25 THEN Some("bm25") ELSE None,
                  IF r.use_vector THEN Some("cosine_similarity") ELSE None >>
        kept == SelectSeq(raw, LAMBDA m : ~IsNone(m))
    IN  [i \in 1..Len(kept) |-> kept[i][1]]

edge_reranker_map ==
    [rrf |-> "rrf", mmr |-> "mmr", cross_encoder |-> "cross_encoder",
     none |-> "rrf"]

node_reranker_map ==
    [rrf |-> "rrf", mmr |-> "mmr", cross_encoder |-> "cross_encoder",
     none |-> "rrf"]

community_reranker_map ==
    [rrf |-> "rrf", mmr |-> "mmr", cross_encoder |-> "cross_encoder",
     none |-> "rrf"]

\* faulty variant of DictGet: an unknown key is handed through
DictGet_raw(map, key, default) ==
    IF key \in DOMAIN map THEN map[key] ELSE key

\* dict.get(key, default)
DictGet(map, key, default) ==
    IF key \in DOMAIN map THEN map[key] ELSE default

\* EdgeSearchConfig / NodeSearchConfig / CommunitySearchConfig
MethodConfig(methods, reranker, mmr_lambda) ==
    [search_methods |-> methods, reranker |-> reranker,
     mmr_lambda |-> mmr_lambda]

\* EpisodeSearchConfig(reranker=EpisodeReranker.rrf): no method list is passed
EpisodeSearchConfig == [reranker |-> "rrf"]

\* if request.search_edges and edge_methods: ...
edge_config(r) ==
    IF r.search_edges /\ Len(edge_methods(r)) > 0
    THEN Some(MethodConfig(edge_methods(r),
                           DictGet(edge_reranker_map, r.reranker, "rrf"),
                           r.mmr_lambda))
    ELSE None

\* if request.search_nodes and node_methods: ...
node_config(r) ==
    IF r.search_nodes /\ Len(node_methods(r)) > 0
    THEN Some(MethodConfig(node_methods(r),
                           DictGet(node_reranker_map, r.reranker, "rrf"),
                           r.mmr_lambda))
    ELSE None

\* if request.search_episodes: ...
episode_config(r) ==
    IF r.search_episodes THEN Some(EpisodeSearchConfig) ELSE None

\* if request.search_communities: ...
community_config(r) ==
    IF r.search_communities
    THEN Some(MethodConfig(community_methods(r),
                           DictGet(community_reranker_map, r.reranker, "rrf"),
                           r.mmr_lambda))
    ELSE None

\* faulty variant of SearchConfig: the largest limit is asked for, whatever
\* the request says
SearchConfig_limitMax(r) ==
    [edge_config |-> edge_config(r),
     node_config |-> node_config(r),
     episode_config |-> episode_config(r),
     community_config |-> community_config(r),
     limit |-> LimitMax]

\* faulty variant of SearchConfig: a limit <= 0 is replaced by 10
SearchConfig_default10(r) ==
    [edge_config |-> edge_config(r),
     node_config |-> node_config(r),
     episode_config |-> episode_config(r),
     community_config |-> community_config(r),
     limit |-> IF r.limit <= 0 THEN 10 ELSE r.limit]

\* SearchConfig(edge_config=..., ..., limit=request.limit)
SearchConfig(r) ==
    [edge_config |-> edge_config(r),
     node_config |-> node_config(r),
     episode_config |-> episode_config(r),
     community_config |-> community_config(r),
     limit |-> r.limit]

\* the values the reranker enumerations of the search configuration have for
\* the keys of the lookup tables
RerankerEnum == {"rrf", "mmr", "cross_encoder"}

\* a configuration object refuses a reranker that is no member of its
\* enumeration
ConfigRejected(cfg) ==
    \E c \in {cfg.edge_config, cfg.node_config, cfg.community_config} :
       ~IsNone(c) /\ c[1].reranker \notin RerankerEnum

NoSearchConfig ==
    [edge_config |-> None, node_config |-> None, episode_config |-> None,
     community_config |-> None, limit |-> 0]

\* the configuration of one class
ConfigOf(cfg, class) ==
    CASE class = "edge" -> cfg.edge_config
      [] class = "node" -> cfg.node_config
      [] class = "episode" -> cfg.episode_config
      [] class = "community" -> cfg.community_config

\* the methods the search runs for one class.  An episode configuration
\* carries no list of its own: episodes are searched by bm25, the only
\* episode method there is.
MethodsOf(cfg, class) ==
    IF IsNone(ConfigOf(cfg, class)) THEN {}
    ELSE IF class = "episode" THEN {"bm25"}
    ELSE Range(ConfigOf(cfg, class)[1].search_methods)

\* the (class, method) channels the search queries
PlannedChannels(cfg) ==
    {<<c, m>> : c \in Classes, m \in {"bm25", "cosine_similarity", "bfs"}}
        \cap UNION {{<<c, m>> : m \in MethodsOf(cfg, c)} : c \in Classes}

----------------------------------------------------------------------------
\* What the awaited graphiti calls return.

\* reranker scores the store attaches to results, in tenths
ScoreValues == {5, 8}

\* the non-increasing score lists of length k
RECURSIVE ScoreLists(_)
ScoreLists(k) ==
    IF k = 0 THEN {<<>>}
    ELSE UNION {{Append(s, v) :
                    v \in {w \in ScoreValues : k = 1 \/ w <= s[k - 1]}} :
                s \in ScoreLists(k - 1)}

\* the score lists the store may attach to n results: one score per result,
\* or fewer
ScoreListsUpTo(n) == UNION {ScoreLists(k) : k \in 0..n}

ClassIndex(class) ==
    CASE class = "edge" -> 1
      [] class = "node" -> 2
      [] class = "episode" -> 3
      [] class = "community" -> 4

\* n items of a class, each with a uuid of its own
Items(class, n) == [i \in 1..n |-> [uuid |-> 10 * ClassIndex(class) + i]]

\* most results per class a search with this limit returns; a limit that is
\* not positive does not bound what this service receives
LibraryCap(limit) == IF limit >= 1 THEN limit ELSE MaxItems

\* how many items each class may return: none for a class that is not
\* searched by any method, at most the cap per class, at most MaxItems in all
ResultCounts(cfg) ==
    {cnt \in [Classes -> 0..MaxItems] :
        /\ \A c \in Classes : MethodsOf(cfg, c) = {} => cnt[c] = 0
        /\ \A c \in Classes : cnt[c] <= LibraryCap(cfg.limit)
        /\ SumOver(cnt, Classes) <= MaxItems}

\* SearchResults: a list and a score list per class
SearchResults(cnt, se, sn, sp, sc) ==
    [edges |-> Items("edge", cnt["edge"]), edge_reranker_scores |-> se,
     nodes |-> Items("node", cnt["node"]), node_reranker_scores |-> sn,
     episodes |-> Items("episode", cnt["episode"]),
     episode_reranker_scores |-> sp,
     communities |-> Items("community", cnt["community"]),
     community_reranker_scores |-> sc]

NoResults ==
    [edges |-> <<>>, edge_reranker_scores |-> <<>>,
     nodes |-> <<>>, node_reranker_scores |-> <<>>,
     episodes |-> <<>>, episode_reranker_scores |-> <<>>,
     communities |-> <<>>, community_reranker_scores |-> <<>>]

\* which channels found a returned item of a class: the search queries every
\* channel of the class and fuses the answers, so an item of the fused list
\* was found by one of these channels or by several; the model draws the
\* lexical channel alone (the vector channel where there is no lexical one,
\* the traversal where there is neither) or all channels of the class
FirstMethod(methods) ==
    IF "bm25" \in methods THEN "bm25"
    ELSE IF "cosine_similarity" \in methods THEN "cosine_similarity"
    ELSE "bfs"

HitSets(methods) ==
    IF methods = {} THEN {} ELSE {{FirstMethod(methods)}, methods}

\* the same for each of n returned items
HitLists(methods, n) == [1..n -> HitSets(methods)]

ChannelHits(he, hn, hp, hc) ==
    [edge |-> he, node |-> hn, episode |-> hp, community |-> hc]

\* the item list of one class in what the search returned
ResultsOf(res, class) ==
    CASE class = "edge" -> res.edges
      [] class = "node" -> res.nodes
      [] class = "episode" -> res.episodes
      [] class = "community" -> res.communities

NoHits == ChannelHits(<<>>, <<>>, <<>>, <<>>)

\* graphiti.search(query, group_ids, num_results, filters): the facts the
\* filters select, num_results of them at most
GraphitiSearch(store, flt, num_results) ==
    Take(SelectSeq(store, LAMBDA e : FilterSelects(flt, e)), num_results)

----------------------------------------------------------------------------
\* Responses.

HasAttr(r, name) == name \in DOMAIN r

\* SearchResult(uuid, name, content, score, result_type, metadata); metadata
\* is modelled by its keys
SearchResult(uuid, score, result_type, metadata) ==
    [uuid |-> uuid, score |-> score, result_type |-> result_type,
     metadata |-> metadata]

\* search / temporal_search: one SearchResult per returned fact
FactResults(rs) ==
    [i \in 1..Len(rs) |->
        SearchResult(IF HasAttr(rs[i], "uuid") THEN ToString(rs[i].uuid)
                                               ELSE "unknown",
                     IF HasAttr(rs[i], "score") THEN rs[i].score
                                                ELSE DefaultScore,
                     "edge", {})]

\* score = scores[i] if i < len(scores) else 1.0   (i counts from 0)
ScoreAt(scores, i) == IF i <= Len(scores) THEN scores[i] ELSE DefaultScore

edge_results(res) ==
    [i \in 1..Len(res.edges) |->
        SearchResult(ToString(res.edges[i].uuid),
                     ScoreAt(res.edge_reranker_scores, i), "edge",
                     {"source_node", "target_node", "valid_at", "invalid_at"})]

\* faulty variant of node_results: the communities, which carry the same
\* type tag, are put into the node list as well
node_results_withCommunities(res) ==
    [i \in 1..Len(res.nodes) |->
        SearchResult(ToString(res.nodes[i].uuid),
                     ScoreAt(res.node_reranker_scores, i), "entity",
                     {"labels"})]
    \o [i \in 1..Len(res.communities) |->
          SearchResult(ToString(res.communities[i].uuid),
                       ScoreAt(res.community_reranker_scores, i), "entity",
                       {"type"})]

node_results(res) ==
    [i \in 1..Len(res.nodes) |->
        SearchResult(ToString(res.nodes[i].uuid),
                     ScoreAt(res.node_reranker_scores, i), "entity",
                     {"labels"})]

episode_results(res) ==
    [i \in 1..Len(res.episodes) |->
        SearchResult(ToString(res.episodes[i].uuid),
                     ScoreAt(res.episode_reranker_scores, i), "episode",
                     {"source", "created_at"})]

\* metadata={'type': 'community'}
community_results(res) ==
    [i \in 1..Len(res.communities) |->
        SearchResult(ToString(res.communities[i].uuid),
                     ScoreAt(res.community_reranker_scores, i), "entity",
                     {"type"})]

\* search_methods_used: 'bm25' / 'vector' / 'bfs' appended per request flag
search_methods_used(r) ==
    AppendIf(AppendIf(AppendIf(<<>>, r.use_bm25, "bm25"),
                      r.use_vector, "vector"),
             r.use_bfs, "bfs")

\* faulty variant of HybridSearchResponse: the total leaves the communities
\* out
HybridSearchResponse_totalOfThree(r, res) ==
    [status |-> 200,
     edges |-> edge_results(res),
     nodes |-> node_results(res),
     episodes |-> episode_results(res),
     communities |-> community_results(res),
     query |-> r.query,
     search_methods_used |-> search_methods_used(r),
     reranker_used |-> r.reranker,
     total_results |-> Len(edge_results(res)) + Len(node_results(res))
                        + Len(episode_results(res))]

\* HybridSearchResponse(edges=..., ..., reranker_used=request.reranker, ...)
HybridSearchResponse(r, res) ==
    [status |-> 200,
     edges |-> edge_results(res),
     nodes |-> node_results(res),
     episodes |-> episode_results(res),
     communities |-> community_results(res),
     query |-> r.query,
     search_methods_used |-> search_methods_used(r),
     reranker_used |-> r.reranker,
     total_results |-> Len(edge_results(res)) + Len(node_results(res))
                        + Len(episode_results(res))
                        + Len(community_results(res))]

\* SearchResponse(results=[...], total=len(results), query=request.query)
SearchResponse(r, rs) ==
    [status |-> 200, results |-> FactResults(rs), total |-> Len(rs),
     query |-> r.query]

\* TemporalQueryResponse(results=[...], as_of=request.as_of)
TemporalQueryResponse(r, rs) ==
    [status |-> 200, results |-> FactResults(rs), as_of |-> r.as_of]

\* faulty variant of HTTPException: an empty success is answered instead
HTTPException_swallow(status_code, detail) ==
    [status |-> 200, edges |-> <<>>, nodes |-> <<>>, episodes |-> <<>>,
     communities |-> <<>>, results |-> <<>>, detail |-> detail]

\* raise HTTPException(status_code=500, detail=str(e))
HTTPException(status_code, detail) ==
    [status |-> status_code, detail |-> detail]

\* the 422 FastAPI answers when the body fails the schema
RequestValidationError == [status |-> 422, detail |-> "validation"]

NoResponse == [status |-> 0]

----------------------------------------------------------------------------
\* The client and its callers (main.py 66-181, 211-239).

\* graphiti_client = None
NoClient == 0

\* the callers of get_graphiti: lifespan at startup, and the requests
Lifespan == 0
Requests == 1..MaxRequests
Callers == {Lifespan} \cup Requests

\* a caller that is not running: no local is bound
IdleCaller ==
    [kind |-> "none", pc |-> "idle", created |-> NoClient,
     graphiti |-> NoClient, response |-> "none"]

\* lifespan entering its startup: await get_graphiti() is about to be called
StartingCaller == [IdleCaller EXCEPT !.kind = "lifespan", !.pc = "call"]

\* Graphiti(graph_driver=..., llm_client=..., embedder=...): a new client,
\* its indices not yet built, close() not yet called on it, not closed
Graphiti == [indices |-> "none", close_calls |-> 0, closed |-> FALSE]

\* HealthResponse(status='healthy' if db_connected else 'unhealthy', ...)
HealthResponse(db_connected) ==
    IF db_connected THEN "healthy" ELSE "unhealthy"

----------------------------------------------------------------------------
\* The handlers, step by step.

Init ==
    /\ pc = "idle"
    /\ endpoint = "none"
    /\ request = NoRequest
    /\ filters = NoFilters
    /\ search_config = NoSearchConfig
    /\ store_edges = <<>>
    /\ failed_channels = {}
    /\ exception = "none"
    /\ results = NoResults
    /\ channel_hits = NoHits
    /\ response = NoResponse
    /\ graphiti_client = NoClient
    /\ clients = <<>>
    /\ app = "startup"
    /\ caller = [p \in Callers |-> IF p = Lifespan THEN StartingCaller
                                                  ELSE IdleCaller]
    /\ handle_writer = Lifespan

\* a POST /search arrives
ReceiveSearch ==
    /\ pc = "idle"
    /\ \E r \in SearchRequest : request' = r
    /\ endpoint' = "search"
    /\ pc' = "validate"
    /\ UNCHANGED <<filters, search_config, store_edges, failed_channels,
                   exception, results, response, channel_hits>>
    /\ UNCHANGED service_vars

\* a POST /search/temporal arrives
ReceiveTemporal ==
    /\ pc = "idle"
    /\ \E r \in TemporalQueryRequest : request' = r
    /\ endpoint' = "temporal"
    /\ pc' = "validate"
    /\ UNCHANGED <<filters, search_config, store_edges, failed_channels,
                   exception, results, response, channel_hits>>
    /\ UNCHANGED service_vars

\* a POST /search/hybrid arrives, its limit positive
ReceiveHybrid ==
    /\ pc = "idle"
    /\ \E r \in HybridSearchRequest(HybridLimits) : request' = r
    /\ endpoint' = "hybrid"
    /\ pc' = "validate"
    /\ UNCHANGED <<filters, search_config, store_edges, failed_channels,
                   exception, results, response, channel_hits>>
    /\ UNCHANGED service_vars

\* a POST /search/hybrid arrives, its limit any integer of HybridAnyLimits
ReceiveHybridAnyLimit ==
    /\ pc = "idle"
    /\ \E r \in HybridSearchRequest(HybridAnyLimits) : request' = r
    /\ endpoint' = "hybrid"
    /\ pc' = "validate"
    /\ UNCHANGED <<filters, search_config, store_edges, failed_channels,
                   exception, results, response, channel_hits>>
    /\ UNCHANGED service_vars

RequestValid ==
    CASE endpoint = "search" -> SearchRequestValid(request)
      [] endpoint = "temporal" -> TemporalQueryRequestValid(request)
      [] endpoint = "hybrid" -> HybridSearchRequestValid(request)

\* the body is checked against the schema before the handler is called
Validate ==
    /\ pc = "validate"
    /\ IF RequestValid
       THEN /\ pc' = IF endpoint = "search" THEN "search" ELSE "plan"
            /\ UNCHANGED response
       ELSE /\ pc' = "done"
            /\ response' = RequestValidationError
    /\ UNCHANGED <<endpoint, request, filters, search_config, store_edges,
                   failed_channels, exception, results, channel_hits>>
    /\ UNCHANGED service_vars

\* temporal_search, lines 491-510
BuildTemporalFilters ==
    /\ pc = "plan"
    /\ endpoint = "temporal"
    /\ filters' = TemporalFilters(request.as_of)
    /\ pc' = "search"
    /\ UNCHANGED <<endpoint, request, search_config, store_edges,
                   failed_channels, exception, results, response,
                   channel_hits>>
    /\ UNCHANGED service_vars

\* hybrid_search, lines 576-653: the configuration is built, unless one of
\* its parts refuses the reranker it is given
BuildSearchConfig ==
    /\ pc = "plan"
    /\ endpoint = "hybrid"
    /\ IF ConfigRejected(SearchConfig(request))
       THEN /\ exception' = "invalid reranker"
            /\ pc' = "except"
            /\ UNCHANGED search_config
       ELSE /\ search_config' = SearchConfig(request)
            /\ pc' = "search"
            /\ UNCHANGED exception
    /\ UNCHANGED <<endpoint, request, filters, store_edges, failed_channels,
                   results, response, channel_hits>>
    /\ UNCHANGED service_vars

\* hybrid_search, lines 624-627: EpisodeSearchConfig is constructed without a
\* search_methods argument.  Whether the configuration class supplies a
\* default for it or refuses the construction is decided by graphiti_core,
\* so both outcomes are possible: BuildSearchConfig above, or this exception.
EpisodeConfigRaises ==
    /\ pc = "plan"
    /\ endpoint = "hybrid"
    /\ request.search_episodes
    /\ exception' = "search_methods missing"
    /\ pc' = "except"
    /\ UNCHANGED <<endpoint, request, filters, search_config, store_edges,
                   failed_channels, results, response, channel_hits>>
    /\ UNCHANGED service_vars

\* search 449-453, temporal_search 513-518: the awaited call returns
GraphitiSearchReturns ==
    /\ pc = "search"
    /\ endpoint \in {"search", "temporal"}
    /\ \E st \in Stores :
          /\ store_edges' = st
          /\ results' = [NoResults EXCEPT
                           !.edges = GraphitiSearch(st, filters, request.limit)]
    /\ pc' = "respond"
    /\ UNCHANGED <<endpoint, request, filters, search_config,
                   failed_channels, exception, response, channel_hits>>
    /\ UNCHANGED service_vars

\* search 449-453, temporal_search 513-518: the awaited call raises
GraphitiSearchRaises ==
    /\ pc = "search"
    /\ endpoint \in {"search", "temporal"}
    /\ \E m \in {"bm25", "cosine_similarity"} :
          failed_channels' = {<<"edge", m>>}
    /\ exception' = "store failure"
    /\ pc' = "except"
    /\ UNCHANGED <<endpoint, request, filters, search_config, store_edges,
                   results, response, channel_hits>>
    /\ UNCHANGED service_vars

\* hybrid_search 655-663: every channel of the configuration answers and the
\* awaited search returns
HybridSearchReturns ==
    /\ pc = "search"
    /\ endpoint = "hybrid"
    /\ \E cnt \in ResultCounts(search_config) :
       \E se \in ScoreListsUpTo(cnt["edge"]) :
       \E sn \in ScoreListsUpTo(cnt["node"]) :
       \E sp \in ScoreListsUpTo(cnt["episode"]) :
       \E sc \in ScoreListsUpTo(cnt["community"]) :
       \E he \in HitLists(MethodsOf(search_config, "edge"), cnt["edge"]) :
       \E hn \in HitLists(MethodsOf(search_config, "node"), cnt["node"]) :
       \E hp \in HitLists(MethodsOf(search_config, "episode"),
                          cnt["episode"]) :
       \E hc \in HitLists(MethodsOf(search_config, "community"),
                          cnt["community"]) :
          /\ results' = SearchResults(cnt, se, sn, sp, sc)
          /\ channel_hits' = ChannelHits(he, hn, hp, hc)
    /\ pc' = "respond"
    /\ UNCHANGED <<endpoint, request, filters, search_config, store_edges,
                   failed_channels, exception, response>>
    /\ UNCHANGED service_vars

\* hybrid_search 655-663: the store fails for some channels of the
\* configuration; the channel queries are gathered without catching, so the
\* failure comes out of the awaited search as an exception
HybridSearchRaises ==
    /\ pc = "search"
    /\ endpoint = "hybrid"
    /\ \E failed \in SUBSET PlannedChannels(search_config) :
          /\ failed # {}
          /\ Cardinality(failed) <= MaxFailures
          /\ failed_channels' = failed
    /\ exception' = "store failure"
    /\ pc' = "except"
    /\ UNCHANGED <<endpoint, request, filters, search_config, store_edges,
                   results, response, channel_hits>>
    /\ UNCHANGED service_vars

\* search 455-469
BuildSearchResponse ==
    /\ pc = "respond"
    /\ endpoint = "search"
    /\ response' = SearchResponse(request, results.edges)
    /\ pc' = "done"
    /\ UNCHANGED <<endpoint, request, filters, search_config, store_edges,
                   failed_channels, exception, results, channel_hits>>
    /\ UNCHANGED service_vars

\* temporal_search 520-533
BuildTemporalResponse ==
    /\ pc = "respond"
    /\ endpoint = "temporal"
    /\ response' = TemporalQueryResponse(request, results.edges)
    /\ pc' = "done"
    /\ UNCHANGED <<endpoint, request, filters, search_config, store_edges,
                   failed_channels, exception, results, channel_hits>>
    /\ UNCHANGED service_vars

\* hybrid_search 665-767
BuildHybridResponse ==
    /\ pc = "respond"
    /\ endpoint = "hybrid"
    /\ response' = HybridSearchResponse(request, results)
    /\ pc' = "done"
    /\ UNCHANGED <<endpoint, request, filters, search_config, store_edges,
                   failed_channels, exception, results, channel_hits>>
    /\ UNCHANGED service_vars

\* faulty variant of HandleException: the awaited search is tried again
HandleException_retry ==
    /\ pc = "except"
    /\ pc' = IF exception = "store failure" THEN "search" ELSE "done"
    /\ response' = IF exception = "store failure" THEN response
                   ELSE HTTPException(500, exception)
    /\ UNCHANGED <<endpoint, request, filters, search_config, store_edges,
                   failed_channels, exception, results, channel_hits>>
    /\ UNCHANGED service_vars

\* except Exception as e: raise HTTPException(status_code=500, detail=str(e))
HandleException ==
    /\ pc = "except"
    /\ response' = HTTPException(500, exception)
    /\ pc' = "done"
    /\ UNCHANGED <<endpoint, request, filters, search_config, store_edges,
                   failed_channels, exception, results, channel_hits>>
    /\ UNCHANGED service_vars

\* the response is sent; nothing of the request is kept
Finish ==
    /\ pc = "done"
    /\ pc' = "idle"
    /\ endpoint' = "none"
    /\ request' = NoRequest
    /\ filters' = NoFilters
    /\ search_config' = NoSearchConfig
    /\ store_edges' = <<>>
    /\ failed_channels' = {}
    /\ exception' = "none"
    /\ results' = NoResults
    /\ channel_hits' = NoHits
    /\ response' = NoResponse
    /\ UNCHANGED service_vars

\* what a request does once it has arrived
Handle ==
    \/ Validate
    \/ BuildTemporalFilters
    \/ BuildSearchConfig
    \/ EpisodeConfigRaises
    \/ GraphitiSearchReturns
    \/ GraphitiSearchRaises
    \/ HybridSearchReturns
    \/ HybridSearchRaises
    \/ BuildSearchResponse
    \/ BuildTemporalResponse
    \/ BuildHybridResponse
    \/ HandleException
    \/ Finish

Next ==
    \/ ReceiveSearch
    \/ ReceiveTemporal
    \/ ReceiveHybrid
    \/ Handle

\* the same service, /search/hybrid receiving limits that are not positive too
NextAnyLimit ==
    \/ ReceiveSearch
    \/ ReceiveTemporal
    \/ ReceiveHybridAnyLimit
    \/ Handle

Spec == Init /\ [][Next]_vars

SpecAnyLimit == Init /\ [][NextAnyLimit]_vars

----------------------------------------------------------------------------
\* get_graphiti, lifespan and health_check, with the requests that run at
\* the same time.  The callers are coroutines of one event loop: a step runs
\* from one await to the next without another caller in between.

\* get_graphiti 79-80: the global holds a client and it is returned at once
GetGraphitiReturnsClient(p) ==
    /\ caller[p].pc = "call"
    /\ graphiti_client # NoClient
    /\ caller' = [caller EXCEPT ![p].pc = "returned",
                                ![p].graphiti = graphiti_client]
    /\ UNCHANGED <<graphiti_client, clients, app, handle_writer>>
    /\ UNCHANGED handler_vars

\* get_graphiti 79-148: the global is None; driver, LLM client and embedder
\* are constructed, the new Graphiti object is assigned to the global, and
\* the caller is suspended in await build_indices_and_constraints()
GetGraphitiCreatesClient(p) ==
    /\ caller[p].pc = "call"
    /\ graphiti_client = NoClient
    /\ clients' = Append(clients, [Graphiti EXCEPT !.indices = "building"])
    /\ graphiti_client' = Len(clients) + 1
    /\ handle_writer' = p
    /\ caller' = [caller EXCEPT ![p].pc = "build",
                                ![p].created = Len(clients) + 1]
    /\ UNCHANGED app
    /\ UNCHANGED handler_vars

\* get_graphiti 109-145, 153-155: a constructor raises before the global is
\* assigned; the exception is logged and raised again
GetGraphitiConstructorRaises(p) ==
    /\ caller[p].pc = "call"
    /\ graphiti_client = NoClient
    /\ caller' = [caller EXCEPT ![p].pc = "raised"]
    /\ UNCHANGED <<graphiti_client, clients, app, handle_writer>>
    /\ UNCHANGED handler_vars

\* get_graphiti 148-151: build_indices_and_constraints() returns; the
\* caller returns what the global holds now
BuildIndicesReturns(p) ==
    /\ caller[p].pc = "build"
    /\ clients' = [clients EXCEPT ![caller[p].created].indices = "built"]
    /\ caller' = [caller EXCEPT ![p].pc = "returned",
                                ![p].graphiti = graphiti_client]
    /\ UNCHANGED <<graphiti_client, app, handle_writer>>
    /\ UNCHANGED handler_vars

\* get_graphiti 148, 153-155: build_indices_and_constraints() raises; the
\* exception is logged and raised again, the global is left as it is
BuildIndicesRaises(p) ==
    /\ caller[p].pc = "build"
    /\ clients' = [clients EXCEPT ![caller[p].created].indices = "failed"]
    /\ caller' = [caller EXCEPT ![p].pc = "raised"]
    /\ UNCHANGED <<graphiti_client, app, handle_writer>>
    /\ UNCHANGED handler_vars

\* get_graphiti, called by p
get_graphiti(p) ==
    \/ GetGraphitiReturnsClient(p)
    \/ GetGraphitiCreatesClient(p)
    \/ GetGraphitiConstructorRaises(p)
    \/ BuildIndicesReturns(p)
    \/ BuildIndicesRaises(p)

\* lifespan 168-174: get_graphiti has returned or raised (the exception is
\* logged and dropped); the application starts to serve
LifespanYield ==
    /\ app = "startup"
    /\ caller[Lifespan].pc \in {"returned", "raised"}
    /\ app' = "serving"
    /\ caller' = [caller EXCEPT ![Lifespan] = IdleCaller]
    /\ UNCHANGED <<graphiti_client, clients, handle_writer>>
    /\ UNCHANGED handler_vars

\* a GET /health or a POST to one of the search endpoints arrives; each of
\* these handlers begins with await get_graphiti()
ReceiveRequest(p) ==
    /\ app = "serving"
    /\ caller[p].pc = "idle"
    /\ \E k \in {"health", "search"} :
          caller' = [caller EXCEPT ![p] = [IdleCaller EXCEPT !.kind = k,
                                                            !.pc = "call"]]
    /\ UNCHANGED <<graphiti_client, clients, app, handle_writer>>
    /\ UNCHANGED handler_vars

\* health_check 214-239: db_connected is whether get_graphiti returned a
\* client, False when it raised
health_check(p) ==
    /\ caller[p].kind = "health"
    /\ caller[p].pc \in {"returned", "raised"}
    /\ LET db_connected == /\ caller[p].pc = "returned"
                           /\ caller[p].graphiti # NoClient
       IN  caller' = [caller EXCEPT ![p].pc = "done",
                                    ![p].response = HealthResponse(db_connected)]
    /\ UNCHANGED <<graphiti_client, clients, app, handle_writer>>
    /\ UNCHANGED handler_vars

\* search / temporal_search / hybrid_search after await get_graphiti(): the
\* handler goes on with the client it was given and answers 200, or an
\* exception (of get_graphiti, or of the search) is answered as 500
SearchHandler(p) ==
    /\ caller[p].kind = "search"
    /\ \/ /\ caller[p].pc = "returned"
          /\ caller[p].graphiti # NoClient
          /\ \E status \in {"200", "500"} :
                caller' = [caller EXCEPT ![p].pc = "done",
                                         ![p].response = status]
       \/ /\ \/ caller[p].pc = "raised"
             \/ caller[p].pc = "returned" /\ caller[p].graphiti = NoClient
          /\ caller' = [caller EXCEPT ![p].pc = "done",
                                      ![p].response = "500"]
    /\ UNCHANGED <<graphiti_client, clients, app, handle_writer>>
    /\ UNCHANGED handler_vars

\* the response is sent and the locals of the request are gone
FinishRequest(p) ==
    /\ caller[p].pc = "done"
    /\ caller' = [caller EXCEPT ![p] = IdleCaller]
    /\ UNCHANGED <<graphiti_client, clients, app, handle_writer>>
    /\ UNCHANGED handler_vars

\* lifespan 176-180: shutdown, entered when the requests in flight have
\* ended; close() is called on a client in the global and awaited, no
\* client: nothing to do
LifespanShutdown ==
    /\ app = "serving"
    /\ \A p \in Requests : caller[p].pc = "idle"
    /\ IF graphiti_client # NoClient
       THEN /\ app' = "closing"
            /\ clients' = [clients EXCEPT ![graphiti_client].close_calls = @ + 1]
       ELSE /\ app' = "stopped"
            /\ UNCHANGED clients
    /\ UNCHANGED <<graphiti_client, caller, handle_writer>>
    /\ UNCHANGED handler_vars

\* lifespan 180-181: close() returns and the global is set to None
LifespanCloseReturns ==
    /\ app = "closing"
    /\ clients' = [clients EXCEPT ![graphiti_client].closed = TRUE]
    /\ graphiti_client' = NoClient
    /\ handle_writer' = Lifespan
    /\ app' = "stopped"
    /\ UNCHANGED caller
    /\ UNCHANGED handler_vars

\* lifespan 180: close() raises; the exception leaves lifespan and the
\* global keeps the client
LifespanCloseRaises ==
    /\ app = "closing"
    /\ app' = "stopped"
    /\ UNCHANGED <<graphiti_client, clients, caller, handle_writer>>
    /\ UNCHANGED handler_vars

\* lifespan: startup until the yield, shutdown after it
lifespan ==
    \/ LifespanYield
    \/ LifespanShutdown
    \/ LifespanCloseReturns
    \/ LifespanCloseRaises

NextService ==
    \/ \E p \in Callers : get_graphiti(p)
    \/ lifespan
    \/ \E p \in Requests : ReceiveRequest(p)
    \/ \E p \in Requests : health_check(p)
    \/ \E p \in Requests : SearchHandler(p)
    \/ \E p \in Requests : FinishRequest(p)

\* the application from startup to shutdown, with its callers of get_graphiti
SpecService == Init /\ [][NextService]_vars

----------------------------------------------------------------------------
\* Properties.

\* the handler is past the step that builds the filters / the configuration
TemporalPlanned ==
    /\ endpoint = "temporal"
    /\ pc \in {"search", "respond", "except"} \/ (pc = "done" /\ response.status # 422)

HybridPlanned ==
    /\ endpoint = "hybrid"
    /\ pc \in {"search", "respond", "except", "done"}
    /\ exception \in {"none", "store failure"}

HybridSucceeded ==
    /\ endpoint = "hybrid"
    /\ pc = "done"
    /\ response.status = 200

HybridDone == endpoint = "hybrid" /\ pc = "done"

\* validity at an instant: validFrom <= asOf and (validTo absent or > asOf)
IsValidAt(edge, asOf) ==
    /\ edge.valid_at # NoDate
    /\ edge.valid_at <= asOf
    /\ (edge.invalid_at = NoDate \/ edge.invalid_at > asOf)

ResponseUuids == {response.results[i].uuid : i \in 1..Len(response.results)}

\* C1: in temporal_search the filters built from as_of select a fact iff its
\* valid_at <= as_of and its invalid_at is absent or > as_of (so a fact with
\* invalid_at = as_of is left out and one with valid_at = as_of is kept), and
\* every fact the search returns and the response carries is valid at as_of.
C1_TemporalFilterIsValidAt ==
    TemporalPlanned =>
        /\ \A e \in StoreEdge :
              FilterSelects(filters, e) <=> IsValidAt(e, request.as_of)
        /\ \A i \in 1..Len(results.edges) :
              IsValidAt(results.edges[i], request.as_of)
        /\ (pc = "done" /\ response.status = 200) =>
              \A i \in 1..Len(store_edges) :
                 ToString(store_edges[i].uuid) \in ResponseUuids
                    => IsValidAt(store_edges[i], request.as_of)

\* a temporal search has answered; the store held a fact that ended exactly
\* at as_of, which is not in the response, and a fact that began exactly at
\* as_of, which is
C1_Witness ==
    /\ endpoint = "temporal"
    /\ pc = "done"
    /\ response.status = 200
    /\ \E i \in 1..Len(store_edges) :
          /\ store_edges[i].invalid_at = request.as_of
          /\ ToString(store_edges[i].uuid) \notin ResponseUuids
    /\ \E j \in 1..Len(store_edges) :
          /\ store_edges[j].valid_at = request.as_of
          /\ ToString(store_edges[j].uuid) \in ResponseUuids

UnknownReranker == request.reranker \notin {"rrf", "mmr", "cross_encoder", "none"}

\* C2: for a reranker key that is in no lookup table, every edge, node and
\* community configuration hybrid_search builds uses rrf, and the request
\* never fails because of the key: no configuration refuses its reranker.
C2_UnknownRerankerFallsBackToRrf ==
    (endpoint = "hybrid" /\ UnknownReranker) =>
        /\ \A c \in {"edge", "node", "community"} :
              ~IsNone(ConfigOf(search_config, c))
                 => ConfigOf(search_config, c)[1].reranker = "rrf"
        /\ exception # "invalid reranker"
        /\ (pc = "done" /\ response.status # 200) =>
              (response.status = 500 /\ response.detail # "invalid reranker")

\* a hybrid search with an unknown key has answered successfully, with an
\* edge, a node and a community configuration built
C2_Witness ==
    /\ HybridSucceeded
    /\ UnknownReranker
    /\ \A c \in {"edge", "node", "community"} :
          ~IsNone(ConfigOf(search_config, c))

\* C3: reranker_used in the hybrid response is the reranker the built
\* configurations actually use (rrf for an unknown key), not the raw key of
\* the request; stated for the classes whose reranker is looked up from the
\* key.
C3_RerankerUsedIsResolved ==
    HybridSucceeded =>
        \A c \in {"edge", "node", "community"} :
           ~IsNone(ConfigOf(search_config, c))
              => response.reranker_used = ConfigOf(search_config, c)[1].reranker

\* the methods the request flags enable for a class; communities take only
\* the lexical and the vector flag
FlagMethods(r, class) ==
    {m \in {"bm25", "cosine_similarity", "bfs"} :
        /\ (m = "bm25" => r.use_bm25)
        /\ (m = "cosine_similarity" => r.use_vector)
        /\ (m = "bfs" => r.use_bfs /\ class # "community")}

Requested(r, class) ==
    CASE class = "edge" -> r.search_edges
      [] class = "node" -> r.search_nodes
      [] class = "episode" -> r.search_episodes
      [] class = "community" -> r.search_communities

\* C4: a requested class for which the flags enable no search method gets no
\* configuration at all.
C4_EmptyMethodsClassSkipped ==
    HybridPlanned =>
        \A c \in Classes :
           (Requested(request, c) /\ FlagMethods(request, c) = {})
              => IsNone(ConfigOf(search_config, c))

\* C5: the community configuration holds only bm25 and cosine_similarity,
\* whatever the flags; the bfs flag still puts bfs into the edge and the node
\* configuration.
C5_CommunityOnlyLexicalVector ==
    HybridPlanned =>
        /\ ~IsNone(search_config.community_config) =>
              Range(search_config.community_config[1].search_methods)
                 \subseteq {"bm25", "cosine_similarity"}
        /\ \A c \in {"edge", "node"} :
              ~IsNone(ConfigOf(search_config, c)) =>
                 ("bfs" \in MethodsOf(search_config, c) <=> request.use_bfs)

\* the bfs flag is set and an edge, a node and a non-empty community
\* configuration are built
C5_Witness ==
    /\ HybridPlanned
    /\ request.use_bfs
    /\ ~IsNone(search_config.community_config)
    /\ MethodsOf(search_config, "community") # {}
    /\ "bfs" \in MethodsOf(search_config, "edge")
    /\ "bfs" \in MethodsOf(search_config, "node")

\* the name search_methods_used gives a method
MethodLabel(m) ==
    CASE m = "bm25" -> "bm25"
      [] m = "cosine_similarity" -> "vector"
      [] m = "bfs" -> "bfs"

\* the methods of the method lists hybrid_search builds
ListedMethods ==
    UNION {MethodsOf(search_config, c) : c \in {"edge", "node", "community"}}

\* the methods the search exercises: the listed ones, and bm25 for the
\* episodes when they are searched
ExercisedMethods == UNION {MethodsOf(search_config, c) : c \in Classes}

\* C6: search_methods_used lists exactly the methods the built
\* configurations exercise, not the raw flags.  The episode configuration
\* lists no method, so the field may count the episode search or leave it out.
C6_MethodsUsedAreExercised ==
    HybridSucceeded =>
        \/ Range(response.search_methods_used)
              = {MethodLabel(m) : m \in ListedMethods}
        \/ Range(response.search_methods_used)
              = {MethodLabel(m) : m \in ExercisedMethods}

\* the store failed for exactly one channel of a class while another channel
\* of that class answered
OneChannelFailedAnotherSucceeded ==
    /\ Cardinality(failed_channels) = 1
    /\ \E f \in failed_channels :
          \E m \in MethodsOf(search_config, f[1]) : <<f[1], m>> \notin failed_channels

ClassUnavailable(c) ==
    /\ MethodsOf(search_config, c) # {}
    /\ \A m \in MethodsOf(search_config, c) : <<c, m>> \in failed_channels

ResultLists == {"edges", "nodes", "episodes", "communities"}

NonIncreasing(list) ==
    \A i \in 1..(Len(list) - 1) : list[i].score >= list[i + 1].score

\* C10: in every hybrid response the scores of each class's list are
\* non-increasing in output order, also when the store returned fewer
\* scores than results.
C10_ScoresNonIncreasing ==
    HybridSucceeded =>
        /\ NonIncreasing(response.edges)
        /\ NonIncreasing(response.nodes)
        /\ NonIncreasing(response.episodes)
        /\ NonIncreasing(response.communities)

\* a /search or /search/temporal request has been answered successfully
FactSearchSucceeded ==
    /\ endpoint \in {"search", "temporal"}
    /\ pc = "done"
    /\ response.status = 200

\* the per-class result list of a hybrid response
ResponseList(class) ==
    CASE class = "edge" -> response.edges
      [] class = "node" -> response.nodes
      [] class = "episode" -> response.episodes
      [] class = "community" -> response.communities

TypeTags(class) ==
    {ResponseList(class)[i].result_type : i \in 1..Len(ResponseList(class))}

\* C12: every result of a hybrid response belongs to one class of
\* {edge, node, episode, community} and its type tag identifies that class:
\* results of two different classes never carry the same tag.
C12_TypeTagIdentifiesClass ==
    HybridSucceeded =>
        \A c, d \in Classes : c # d => TypeTags(c) \cap TypeTags(d) = {}

\* the channels a result names as the ones that found it; SearchResult has
\* no field for them, the metadata of no class has a key for them
Provenance(result) ==
    IF HasAttr(result, "provenance") THEN result.provenance ELSE {}

\* how often the response lists this uuid in the list of a class
Occurrences(class, uuid) ==
    Cardinality({i \in 1..Len(ResponseList(class)) :
                    ResponseList(class)[i].uuid = uuid})

\* C13: an entity found by several channels appears exactly once in the list
\* of its class, and that result carries the union of the channels that found
\* it as its provenance.
C13_OnceWithUnionProvenance ==
    HybridSucceeded =>
        \A c \in Classes :
           \A i \in 1..Len(ResultsOf(results, c)) :
              Cardinality(channel_hits[c][i]) > 1 =>
                 /\ Occurrences(c, ToString(ResultsOf(results, c)[i].uuid)) = 1
                 /\ Provenance(ResponseList(c)[i]) = channel_hits[c][i]

\* C14: the total a response reports is the sum of the lengths of the result
\* lists it contains: edges + nodes + episodes + communities for a hybrid
\* search, the length of results for /search.
C14_TotalIsSumOfLists ==
    /\ HybridSucceeded =>
          response.total_results
             = SumOver([c \in Classes |-> Len(ResponseList(c))], Classes)
    /\ (endpoint = "search" /\ pc = "done" /\ response.status = 200) =>
          response.total = Len(response.results)

\* a hybrid response with communities and results of another class
C14_Witness ==
    /\ HybridSucceeded
    /\ Len(response.communities) > 0
    /\ \E c \in Classes \ {"community"} : Len(ResponseList(c)) > 0
    /\ response.total_results = MaxItems

\* the uuids of the items the search returned for a class, as the response
\* writes them
ReturnedUuids(class) ==
    {ToString(ResultsOf(results, class)[i].uuid) :
        i \in 1..Len(ResultsOf(results, class))}

\* C15: the response groups the results by class and never interleaves
\* them: the list of a class holds exactly one result per item the search
\* returned for that class, in the order the search returned them, and no
\* item of another class.
C15_GroupedByClassInStoreOrder ==
    HybridSucceeded =>
        \A c \in Classes :
           /\ Len(ResponseList(c)) = Len(ResultsOf(results, c))
           /\ \A i \in 1..Len(ResponseList(c)) :
                 /\ ResponseList(c)[i].uuid
                       = ToString(ResultsOf(results, c)[i].uuid)
                 /\ \A d \in Classes \ {c} :
                       ResponseList(c)[i].uuid \notin ReturnedUuids(d)

\* a hybrid response with two nodes, in the order the search returned them
C15_Witness ==
    /\ HybridSucceeded
    /\ Len(results.nodes) = 2
    /\ results.nodes[1].uuid # results.nodes[2].uuid
    /\ Len(response.nodes) = 2
    /\ response.nodes[1].uuid = ToString(results.nodes[1].uuid)
    /\ response.nodes[2].uuid = ToString(results.nodes[2].uuid)

\* the steps of a request, in the order the handlers take them: the body is
\* validated, the filters or the configuration are built (plan), the search
\* is awaited (fan-out, filtering and reranking happen inside that one call),
\* the response is assembled (respond) or the exception handled (except)
ForwardSteps ==
    {<<"idle", "validate">>, <<"validate", "plan">>, <<"validate", "search">>,
     <<"validate", "done">>, <<"plan", "search">>, <<"plan", "except">>,
     <<"search", "respond">>, <<"search", "except">>, <<"respond", "done">>,
     <<"except", "done">>, <<"done", "idle">>}

ForwardStep == pc' # pc => <<pc, pc'>> \in ForwardSteps

\* the request ended with HTTP 500
Failed == pc = "done" /\ response.status = 500

\* plan building itself threw
PlanBuildingThrew == exception \in {"invalid reranker", "search_methods missing"}

StructurallyInvalid(r) ==
    \/ Len(r.query) < QueryMinLength
    \/ r.limit < LimitMin
    \/ r.limit > LimitMax

\* C17: in every search endpoint a structurally invalid request is rejected
\* before any plan is built and before the store is called, and it is not
\* retried: it goes from validation straight to its rejection.
C17_InvalidRequestRejectedBeforePlan ==
    (endpoint # "none" /\ StructurallyInvalid(request)) =>
        /\ pc \in {"validate", "done"}
        /\ pc = "done" => response.status = 422
        /\ filters = NoFilters
        /\ search_config = NoSearchConfig
        /\ store_edges = <<>>
        /\ results = NoResults

\* a request that is being served
InFlight(p) == caller[p].pc # "idle"

\* a request that has read the global handle (line 79) or assigned it
\* (line 141) while being served
TouchedHandle(p) == caller[p].pc \notin {"idle", "call"}

\* the value the global handle holds was assigned by a request that is
\* still being served
HandleWrittenByRequest ==
    /\ handle_writer \in Requests
    /\ InFlight(handle_writer)
    /\ caller[handle_writer].created # NoClient

\* C18: no mutable state is shared across concurrent requests: whatever a
\* request reads or writes is its own or is never written after
\* construction.  For the store handle: when a request in flight has
\* assigned it, no other request in flight reads or writes it.
C18_NoSharedMutableState ==
    HandleWrittenByRequest =>
        \A p \in Requests : TouchedHandle(p) => p = handle_writer

\* the client a caller holds after get_graphiti has returned
Received(p) == caller[p].pc = "returned" /\ caller[p].graphiti # NoClient

\* C19: a caller of get_graphiti receives a client only after
\* build_indices_and_constraints has completed successfully for it: never
\* one whose index building is in progress or has failed.
C19_ClientReturnedOnlyAfterIndicesBuilt ==
    \A p \in Callers :
       Received(p) => clients[caller[p].graphiti].indices = "built"

\* the initialisation of the client has succeeded, index building included
InitialisationSucceeded ==
    /\ graphiti_client # NoClient
    /\ clients[graphiti_client].indices = "built"

\* C20: health_check reports healthy only when the initialisation of the
\* client, index building included, has succeeded; after an initialisation
\* that raised it reports unhealthy until one succeeds.
C20_HealthyOnlyAfterInitialisation ==
    \A p \in Requests :
       (caller[p].kind = "health" /\ caller[p].pc = "done"
           /\ caller[p].response = "healthy")
          => InitialisationSucceeded

\* C21: between startup and shutdown at most one Graphiti client is stored
\* in the global handle, whatever the interleaving of the get_graphiti
\* calls, and every caller that receives a client receives that one; at
\* shutdown that client is closed exactly once and the handle is None again.
C21_OneClientClosedOnceAtShutdown ==
    /\ Len(clients) <= 1
    /\ \A p \in Callers : Received(p) => caller[p].graphiti = graphiti_client
    /\ \A p, q \in Callers :
          (Received(p) /\ Received(q)) => caller[p].graphiti = caller[q].graphiti
    /\ app = "stopped" =>
          /\ graphiti_client = NoClient
          /\ \A i \in 1..Len(clients) :
                clients[i].closed /\ clients[i].close_calls = 1

====
